---------------------------- MODULE Spec2Model ----------------------------
(***************************************************************************)
(* A model of axon's RPC connection engine, src/src/rpc.rs (RpcContext).   *)
(*                                                                         *)
(* Two threads share one RpcContext:                                       *)
(*   "loop"  runs recv_until_death (rpc.rs:149-226);                       *)
(*   "ui"    is the caller: it runs init (78-121), wake (123-125),         *)
(*           next_serial (127-129) and send/send_raw (131-147), one call   *)
(*           after the other, and owns the RUNNING flag.                   *)
(* The caller follows the protocol the engine is written for: it calls     *)
(* init only while it holds no connection (at start, after a failed init,  *)
(* or after the view was told that the epoch ended) and sends commands     *)
(* only while it holds one.                                                *)
(*                                                                         *)
(* RefCell borrow flags are part of the state: a borrow_mut() that finds   *)
(* the cell borrowed panics, as a borrow() would on a mutably borrowed     *)
(* cell.  The flag is read as the thread that set it left it.              *)
(*                                                                         *)
(* The view is the environment: its handlers are called and return.  What  *)
(* the loop passes to them for the item it is handling is recorded, and so *)
(* are the frames handed to the write half, whose write and flush may      *)
(* fail.  Encoding a command (serde_json::to_string, line 132) is taken to *)
(* succeed.                                                                *)
(*                                                                         *)
(* Spec is the engine built for a 64-bit target, from its construction;    *)
(* Spec32 is the engine built for a 32-bit target, from the moment its     *)
(* serial counter stands at usize::MAX.                                    *)
(***************************************************************************)
EXTENDS Naturals, Sequences, FiniteSets

\* ------------------------------------------------------------- bounds
\* number of init calls the caller makes
MaxConn == 2
\* number of next_serial calls
MaxSerial == 3
\* number of send_raw calls
MaxSends == 2

\* ---------------------------------------------------------- constants
\* mpsc::channel(1): the buffer argument
ChannelBuffer == 1
\* the one Sender of the wake channel (waiter.0), never cloned
NumSenders == 1
\* futures 0.1 sync::mpsc: "the channel capacity is equal to
\* buffer + num-senders": a sender is parked (and its next try_send refused)
\* only once its message made the queue longer than the buffer.
WakeCapacity == ChannelBuffer + NumSenders
\* synapse_rpc::MAJOR_VERSION, the client's compiled major version
MAJOR_VERSION == 1
\* Integers are kept at their width as little-endian sequences of 16-bit
\* limbs: a usize is 2 limbs on a 32-bit target and 4 on a 64-bit one, a
\* u64 is 4 limbs.
LimbBase == 65536
U64Limbs == 4
\* the limbs of a usize on a 64-bit target and on a 32-bit target
WideLimbs == 4
NarrowLimbs == 2

Threads == {"loop", "ui"}

\* The first frame a server may answer a transport connect with:
\*  silent  no frame is ever sent        end     the stream ends
\*  err     the read fails               binary  a non-text frame
\*  garbage text that is no Version      ver     text holding {major, minor}
\* (the client's major with another minor, and another major)
Versions == {<<1, 5>>, <<2, 0>>}
NoFrame == [kind |-> "none", major |-> 0, minor |-> 0]
HsFrames ==
    {[kind |-> k, major |-> 0, minor |-> 0] :
        k \in {"silent", "end", "err", "binary", "garbage"}}
    \cup {[kind |-> "ver", major |-> v[1], minor |-> v[2]] : v \in Versions}

\* Ping payloads and id lists of resource events
Data == {"a", "b"}

\* What the socket's read half yields in an epoch (OwnedMessage, or Err):
\*  ping     Ping(data)                     close    Close(..)
\*  readerr  the read fails                 textbad  text that is no SMessage
\*  extant   ResourcesExtant{ids: data}     removed  ResourcesRemoved{ids: data}
\*  other    any other SMessage             binary   Binary or Pong
ActiveFrames ==
    {[kind |-> k, data |-> d] : k \in {"ping", "extant", "removed"}, d \in Data}
    \cup {[kind |-> k, data |-> "-"] :
              k \in {"close", "readerr", "textbad", "other", "binary"}}
NoEvent == [kind |-> "none", data |-> "-"]

NoSerial == <<>>
NoMsg == [type |-> "none", data |-> "-", serial |-> NoSerial]
\* What tells one frame from another on the wire, its payload left out
Header(m) == [type |-> m.type, serial |-> m.serial]

VARIABLES
    RUNNING,    \* ::RUNNING, the process-wide flag (false: shutdown requested)
    socket,     \* RpcContext.socket: 0 is None, c > 0 the socket of connect c
    chan,       \* RpcContext.waiter: wakes queued in the channel
    serial,     \* RpcContext.serial, a usize in limbs
    core,       \* RpcContext.core: "free" or the thread holding its borrow_mut
    lock,       \* the Mutex of the write half: "none" or its holder
    pc,         \* where each thread is
    msg,        \* the frame each thread is sending in send_raw
    wire,       \* what the write half was given, in order:
                \* <<thread, op, header of the frame>>
    conn,       \* number of init calls so far; the current one's id
    hs,         \* of the latest init call: transport outcome, first frame,
                \* result ("none" while it runs) and wakes sent
    sockFrame,  \* the first frame that was read from the stored socket
    epochSock,  \* the socket the loop's latest epoch reads from (0: none yet)
    issued,     \* per thread: the values next_serial returned to it, in order
    loggedIn,   \* the caller holds a connection
    sdWake,     \* the wake() of the shutdown request has been sent
    endCause,   \* how the last epoch ended: "none", "close", "error", "wake"
    ev,         \* the item of the read half the loop took last
    evView,     \* the view calls the loop has made for ev: <<handler, arg>>
    evSent,     \* the frames the loop has handed to send_raw for ev, and
                \* whether the write and the flush went well
    evIssued    \* the serials the loop has drawn for ev

vars == <<RUNNING, socket, chan, serial, core, lock, pc, msg, wire, conn, hs,
          sockFrame, epochSock, issued, loggedIn, sdWake, endCause,
          ev, evView, evSent, evIssued>>

NoHandshake ==
    [transport |-> "none", frame |-> NoFrame, res |-> "none", wakes |-> 0]

PanicPcs == {"panic_core", "panic_unwrap", "panic_borrow", "panic_wake",
             "panic_clear", "panic_unreachable"}
SendPcs == {"send_lock", "send_write", "send_flush"}
\* recv_until_death between line 157 and the end of the loop body: the Ref
\* of line 157 (and the core and stream borrows) are alive
EpochPcs == SendPcs \cup {"active", "fwd", "epoch_end", "clear"}

\* A value below LimbBase as a usize of n limbs, and as a u64
Usize(n, v) == [i \in 1..n |-> IF i = 1 THEN v ELSE 0]
U64(v) == Usize(U64Limbs, v)

\* Lines 65-76, RpcContext::new, but for the counter
InitRest ==
    /\ RUNNING = TRUE
    /\ socket = 0
    /\ chan = 0
    /\ core = "free"
    /\ lock = "none"
    /\ pc = [t \in Threads |-> IF t = "loop" THEN "wait_init" ELSE "idle"]
    /\ msg = [t \in Threads |-> NoMsg]
    /\ wire = <<>>
    /\ conn = 0
    /\ hs = NoHandshake
    /\ sockFrame = NoFrame
    /\ epochSock = 0
    /\ issued = [t \in Threads |-> <<>>]
    /\ loggedIn = FALSE
    /\ sdWake = FALSE
    /\ endCause = "none"
    /\ ev = NoEvent
    /\ evView = <<>>
    /\ evSent = <<>>
    /\ evIssued = <<>>

\* Line 72: serial: AtomicUsize::new(0), in a build for a 64-bit target
Init ==
    /\ serial = Usize(WideLimbs, 0)
    /\ InitRest

\* A build for a 32-bit target, looked at from the moment its counter has
\* reached usize::MAX (2^32 - 1 calls of next_serial were made and nothing
\* else); issued and wire record what happens from then on.
Init32 ==
    /\ serial = [i \in 1..NarrowLimbs |-> LimbBase - 1]
    /\ InitRest


\* ------------------------------------------------------------ helpers

\* Shared borrows of RpcContext.socket that are alive: the Ref of line 157,
\* held by recv_until_death to the end of the loop body, and the Ref of
\* line 139, held by a caller inside send_raw.
SocketBorrows ==
    (IF pc["loop"] \in EpochPcs THEN 1 ELSE 0)
    + (IF pc["loop"] \in SendPcs THEN 1 ELSE 0)
    + (IF pc["ui"] \in SendPcs THEN 1 ELSE 0)

\* send_raw calls begun so far (those whose write reached the sink, and
\* those still before it)
SendsBegun ==
    Cardinality({i \in DOMAIN wire : wire[i][2] = "send"})
    + Cardinality({t \in Threads : pc[t] \in {"send_lock", "send_write"}})

\* Sender::try_send refuses the message when the sender is parked, which
\* it is once the queue holds buffer + senders messages.
ChannelFull(n) == n >= WakeCapacity

\* The handshake check of init, lines 97-116: a text frame that decodes to
\* a Version whose major is the client's; the minor is not looked at.
HandshakeAcceptsAnyMajor(f) == f.kind = "ver"
HandshakeAcceptsSameMinor(f) ==
    f.kind = "ver" /\ f.major = MAJOR_VERSION /\ f.minor = 0
HandshakeAccepts(f) == f.kind = "ver" /\ f.major = MAJOR_VERSION

\* next_serial calls made so far
NumCalls == Len(issued["loop"]) + Len(issued["ui"])

\* usize wrapping add of 1: the carry runs through the limbs that are full
WrappingAdd1(s) ==
    [i \in 1..Len(s) |->
        IF \A j \in 1..(i - 1) : s[j] = LimbBase - 1
          THEN (s[i] + 1) % LimbBase
          ELSE s[i]]

\* `as _` of line 128: usize to u64, zero-extended
AsU64(s) == [i \in 1..U64Limbs |-> IF i <= Len(s) THEN s[i] ELSE 0]

\* a < b for two u64
U64Less(a, b) ==
    \E i \in 1..U64Limbs :
        /\ a[i] < b[i]
        /\ \A j \in (i + 1)..U64Limbs : a[j] = b[j]

\* Line 128: AtomicUsize::fetch_add(1) as u64: the value before the add is
\* returned; the add wraps at usize::MAX.
FetchAddReturnsNew(s) ==
    [ret |-> AsU64(WrappingAdd1(s)), new |-> WrappingAdd1(s)]
FetchAddKeepsValue(s) == [ret |-> AsU64(s), new |-> s]
FetchAdd(s) == [ret |-> AsU64(s), new |-> WrappingAdd1(s)]

\* Line 158: socket.is_none()
SocketIsSome(s) == s # 0
SocketIsNone(s) == s = 0

\* Lines 219-224: where the loop goes once the epoch is over
EpochEndIgnoresRunning(running) == "clear"
EpochEndTarget(running) == IF running THEN "clear" ELSE "done"

\* parking_lot::Mutex::lock returns once no one holds the lock
LockAlwaysFree(l) == TRUE
LockFree(l) == l = "none"

\* What msg_handler does with an item of the read half (lines 166-214):
\*  calls  the view handlers called first       cmd  the frame then sent
\*  fwd    view.handle_rpc called after the send
\*  end    the stream is ended with an error    panic  unreachable!()
Handled ==
    [calls |-> <<>>, cmd |-> "none", fwd |-> FALSE, end |-> "none",
     panic |-> FALSE]
\* 179-182: Ping(p) => send_raw(Pong(p))
OnPingForwards == [Handled EXCEPT !.calls = <<"handle_rpc">>, !.cmd = "pong"]
OnPing == [Handled EXCEPT !.cmd = "pong"]
\* 183-186: Close(data) => view.server_close(data), future::err
OnCloseGoesOn == [Handled EXCEPT !.calls = <<"server_close">>]
OnClose == [Handled EXCEPT !.calls = <<"server_close">>, !.end = "close"]
\* 169, 176: a read error => view.global_err, future::err
OnReadErr == [Handled EXCEPT !.calls = <<"global_err">>, !.end = "error"]
\* 188-189: Err(e) of the decode => view.global_err
OnDecodeErrEndsEpoch ==
    [Handled EXCEPT !.calls = <<"global_err">>, !.end = "error"]
OnDecodeErr == [Handled EXCEPT !.calls = <<"global_err">>]
\* 190-197: ResourcesExtant => send(Subscribe {next_serial(), ids})
OnResourcesExtantForwards ==
    [Handled EXCEPT !.cmd = "subscribe", !.fwd = TRUE]
OnResourcesExtant == [Handled EXCEPT !.cmd = "subscribe"]
\* 198-204: ResourcesRemoved => send(Unsubscribe {next_serial(), ids}),
\* then view.handle_rpc
OnResourcesRemovedKeepsEvent == [Handled EXCEPT !.cmd = "unsubscribe"]
OnResourcesRemovedForwardsFirst ==
    [Handled EXCEPT !.calls = <<"handle_rpc">>, !.cmd = "unsubscribe"]
OnResourcesRemoved == [Handled EXCEPT !.cmd = "unsubscribe", !.fwd = TRUE]
\* 205-207: any other SMessage => view.handle_rpc
OnOtherMessage == [Handled EXCEPT !.calls = <<"handle_rpc">>]
\* 211: any other OwnedMessage => unreachable!()
OnOtherFrame == [Handled EXCEPT !.panic = TRUE]
\* 213: StreamRes::Close, the wake => future::err
OnWakeGoesOn == "active"
OnWake == "epoch_end"

Handler(kind) ==
    CASE kind = "ping" -> OnPing
      [] kind = "close" -> OnClose
      [] kind = "readerr" -> OnReadErr
      [] kind = "textbad" -> OnDecodeErr
      [] kind = "extant" -> OnResourcesExtant
      [] kind = "removed" -> OnResourcesRemoved
      [] kind = "other" -> OnOtherMessage
      [] kind = "binary" -> OnOtherFrame
      [] OTHER -> Handled

\* ------------------------------------------------- init (lines 78-121)

\* Lines 81-82: the core is borrowed mutably for the timed connect.
InitStart ==
    /\ pc["ui"] = "idle"
    /\ ~loggedIn
    /\ conn < MaxConn
    /\ conn' = conn + 1
    /\ IF core = "free"
         THEN /\ core' = "ui"
              /\ pc' = [pc EXCEPT !["ui"] = "init_connect"]
              /\ hs' = NoHandshake
         ELSE /\ core' = core
              /\ pc' = [pc EXCEPT !["ui"] = "panic_core"]
              /\ hs' = [NoHandshake EXCEPT !.res = "panic"]
    /\ UNCHANGED <<RUNNING, socket, chan, serial, lock, msg, wire, issued,
                   sockFrame, epochSock, loggedIn, sdWake, endCause>>
    /\ UNCHANGED <<ev, evView, evSent, evIssued>>

\* Lines 83-95: the transport connect raced against the 10 s timeout.  On
\* success the server decides what, if anything, it sends first.
InitConnect ==
    /\ pc["ui"] = "init_connect"
    /\ core' = "free"
    /\ \/ \E f \in HsFrames :
            /\ hs' = [hs EXCEPT !.transport = "ok", !.frame = f]
            /\ pc' = [pc EXCEPT !["ui"] = "init_frame"]
       \/ \E e \in {"err", "timeout"} :
            /\ hs' = [hs EXCEPT !.transport = e, !.res = "err"]
            /\ pc' = [pc EXCEPT !["ui"] = "idle"]
    /\ UNCHANGED <<RUNNING, socket, chan, serial, lock, msg, wire, conn,
                   issued, loggedIn, sdWake, endCause,
                   sockFrame, epochSock>>
    /\ UNCHANGED <<ev, evView, evSent, evIssued>>

\* Lines 97-116: stream.wait().next() blocks until the first frame is
\* there (no timer is running any more), unwraps it, and checks it.
InitReadFrame ==
    /\ pc["ui"] = "init_frame"
    /\ hs.frame.kind # "silent"
    /\ IF hs.frame.kind = "end"
         THEN /\ pc' = [pc EXCEPT !["ui"] = "panic_unwrap"]
              /\ hs' = [hs EXCEPT !.res = "panic"]
         ELSE IF HandshakeAccepts(hs.frame)
                THEN /\ pc' = [pc EXCEPT !["ui"] = "init_store"]
                     /\ hs' = hs
                ELSE /\ pc' = [pc EXCEPT !["ui"] = "idle"]
                     /\ hs' = [hs EXCEPT !.res = "err"]
    /\ UNCHANGED <<RUNNING, socket, chan, serial, core, lock, msg, wire,
                   conn, issued, loggedIn, sdWake, endCause,
                   sockFrame, epochSock>>
    /\ UNCHANGED <<ev, evView, evSent, evIssued>>

\* Line 118: *self.socket.borrow_mut() = Some(..)
InitStore ==
    /\ pc["ui"] = "init_store"
    /\ IF SocketBorrows = 0
         THEN /\ socket' = conn
              /\ sockFrame' = hs.frame
              /\ pc' = [pc EXCEPT !["ui"] = "init_wake"]
              /\ hs' = hs
         ELSE /\ socket' = socket
              /\ sockFrame' = sockFrame
              /\ pc' = [pc EXCEPT !["ui"] = "panic_borrow"]
              /\ hs' = [hs EXCEPT !.res = "panic"]
    /\ UNCHANGED <<RUNNING, chan, serial, core, lock, msg, wire, conn,
                   epochSock, issued, loggedIn, sdWake, endCause>>
    /\ UNCHANGED <<ev, evView, evSent, evIssued>>

\* Lines 119-120: self.wake(); Ok(())
InitWake ==
    /\ pc["ui"] = "init_wake"
    /\ IF ChannelFull(chan)
         THEN /\ chan' = chan
              /\ pc' = [pc EXCEPT !["ui"] = "panic_wake"]
              /\ hs' = [hs EXCEPT !.res = "panic"]
              /\ loggedIn' = loggedIn
         ELSE /\ chan' = chan + 1
              /\ pc' = [pc EXCEPT !["ui"] = "idle"]
              /\ hs' = [hs EXCEPT !.res = "ok",
                                  !.wakes = hs.wakes + 1]
              /\ loggedIn' = TRUE
    /\ UNCHANGED <<RUNNING, socket, serial, core, lock, msg, wire, conn,
                   issued, sdWake, endCause,
                   sockFrame, epochSock>>
    /\ UNCHANGED <<ev, evView, evSent, evIssued>>

\* ------------------------------------- shutdown: RUNNING and wake (123-125)

\* The owner of RUNNING requests shutdown ...
Shutdown ==
    /\ pc["ui"] = "idle"
    /\ RUNNING
    /\ RUNNING' = FALSE
    /\ pc' = [pc EXCEPT !["ui"] = "sd_wake"]
    /\ UNCHANGED <<socket, chan, serial, core, lock, msg, wire, conn, hs,
                   issued, loggedIn, sdWake, endCause,
                   sockFrame, epochSock>>
    /\ UNCHANGED <<ev, evView, evSent, evIssued>>

\* ... and calls wake(): try_send(()).unwrap()
ShutdownWake ==
    /\ pc["ui"] = "sd_wake"
    /\ IF ChannelFull(chan)
         THEN /\ chan' = chan
              /\ pc' = [pc EXCEPT !["ui"] = "panic_wake"]
              /\ sdWake' = sdWake
         ELSE /\ chan' = chan + 1
              /\ pc' = [pc EXCEPT !["ui"] = "idle"]
              /\ sdWake' = TRUE
    /\ UNCHANGED <<RUNNING, socket, serial, core, lock, msg, wire, conn, hs,
                   issued, loggedIn, endCause,
                   sockFrame, epochSock>>
    /\ UNCHANGED <<ev, evView, evSent, evIssued>>

\* ------------------------------------------ next_serial (lines 127-129)

CallNextSerial ==
    /\ pc["ui"] = "idle"
    /\ NumCalls < MaxSerial
    /\ serial' = FetchAdd(serial).new
    /\ issued' = [issued EXCEPT !["ui"] = Append(@, FetchAdd(serial).ret)]
    /\ UNCHANGED <<RUNNING, socket, chan, core, lock, pc, msg, wire, conn,
                   hs, loggedIn, sdWake, endCause,
                   sockFrame, epochSock>>
    /\ UNCHANGED <<ev, evView, evSent, evIssued>>

\* ------------------------------------- send, send_raw (lines 131-147)

\* A command of the view: send encodes it and enters send_raw, which
\* borrows the socket and unwraps it (lines 139-141).
CallSend ==
    /\ pc["ui"] = "idle"
    /\ loggedIn
    /\ SendsBegun < MaxSends
    /\ IF SocketIsNone(socket)
         THEN /\ pc' = [pc EXCEPT !["ui"] = "panic_unwrap"]
              /\ msg' = msg
         ELSE /\ pc' = [pc EXCEPT !["ui"] = "send_lock"]
              /\ msg' = [msg EXCEPT !["ui"] = [NoMsg EXCEPT !.type = "cmd"]]
    /\ UNCHANGED <<RUNNING, socket, chan, serial, core, lock, wire, conn, hs,
                   issued, loggedIn, sdWake, endCause,
                   sockFrame, epochSock>>
    /\ UNCHANGED <<ev, evView, evSent, evIssued>>

\* Line 141: .lock()
SendRawLock(t) ==
    /\ pc[t] = "send_lock"
    /\ LockFree(lock)
    /\ lock' = t
    /\ pc' = [pc EXCEPT ![t] = "send_write"]
    /\ UNCHANGED <<RUNNING, socket, chan, serial, core, msg, wire, conn, hs,
                   issued, loggedIn, sdWake, endCause,
                   sockFrame, epochSock>>
    /\ UNCHANGED <<ev, evView, evSent, evIssued>>

\* Line 143: sink.send(msg)
SendRawWrite(t) ==
    /\ pc[t] = "send_write"
    /\ wire' = Append(wire, <<t, "send", Header(msg[t])>>)
    /\ pc' = [pc EXCEPT ![t] = "send_flush"]
    /\ UNCHANGED <<RUNNING, socket, chan, serial, core, lock, msg, conn, hs,
                   issued, loggedIn, sdWake, endCause,
                   sockFrame, epochSock>>
    /\ UNCHANGED <<ev, evView, evSent, evIssued>>

\* Lines 143-147: sink.flush(); the results of the send and of the flush
\* are matched together, and view.global_err is called once if either is
\* an error (of the view's calls only those made for the loop's item are
\* recorded); then the guard and the Ref are dropped.  The loop goes on
\* with what follows its send: view.handle_rpc after an Unsubscribe (line
\* 204), the next item otherwise.
SendRawFlush(t) ==
    /\ pc[t] = "send_flush"
    /\ wire' = Append(wire, <<t, "flush", Header(msg[t])>>)
    /\ lock' = IF lock = t THEN "none" ELSE lock
    /\ \E err \in BOOLEAN :
          IF t = "loop"
            THEN /\ evSent' = Append(evSent, [frame |-> msg[t], ok |-> ~err])
                 /\ evView' = IF err
                                THEN Append(evView, <<"global_err", "send_raw">>)
                                ELSE evView
            ELSE UNCHANGED <<evSent, evView>>
    /\ pc' = [pc EXCEPT ![t] =
                IF t # "loop" THEN "idle"
                ELSE IF Handler(ev.kind).fwd THEN "fwd" ELSE "active"]
    /\ msg' = [msg EXCEPT ![t] = NoMsg]
    /\ UNCHANGED <<RUNNING, socket, chan, serial, core, conn, hs, issued,
                   loggedIn, sdWake, endCause,
                   sockFrame, epochSock>>
    /\ UNCHANGED <<ev, evIssued>>


\* ------------------------------- recv_until_death (lines 149-226)

\* Lines 153-154: wait for a wake on the channel
LoopWait ==
    /\ pc["loop"] = "wait_init"
    /\ chan > 0
    /\ chan' = chan - 1
    /\ pc' = [pc EXCEPT !["loop"] = "woken"]
    /\ UNCHANGED <<RUNNING, socket, serial, core, lock, msg, wire, conn, hs,
                   issued, loggedIn, sdWake, endCause,
                   sockFrame, epochSock>>
    /\ UNCHANGED <<ev, evView, evSent, evIssued>>

\* Lines 156-164: return when no socket is stored; otherwise borrow the
\* core and the read half and start the epoch.  RUNNING is not read here.
LoopCheckSocket ==
    /\ pc["loop"] = "woken"
    /\ IF SocketIsNone(socket)
         THEN /\ pc' = [pc EXCEPT !["loop"] = "done"]
              /\ core' = core
              /\ epochSock' = epochSock
         ELSE IF core = "free"
                THEN /\ pc' = [pc EXCEPT !["loop"] = "active"]
                     /\ core' = "loop"
                     /\ epochSock' = socket
                ELSE /\ pc' = [pc EXCEPT !["loop"] = "panic_core"]
                     /\ core' = core
                     /\ epochSock' = epochSock
    /\ endCause' = "none"
    /\ UNCHANGED <<RUNNING, socket, sockFrame, chan, serial, lock, msg, wire,
                   conn, hs, issued, loggedIn, sdWake>>
    /\ UNCHANGED <<ev, evView, evSent, evIssued>>

\* Lines 166-212: the next item of the read half, handled by its kind.
\* A command is built with next_serial() and handed to send, which encodes
\* it and enters send_raw.
LoopRecv(f) ==
    LET h == Handler(f.kind)
        sends == h.cmd # "none" /\ h.end = "none" /\ ~h.panic
        draws == sends /\ h.cmd \in {"subscribe", "unsubscribe"}
        fa == FetchAdd(serial)
    IN  /\ pc["loop"] = "active"
        /\ sends => SendsBegun < MaxSends
        /\ draws => NumCalls < MaxSerial
        /\ ev' = f
        /\ evView' = [i \in 1..Len(h.calls) |-> <<h.calls[i], f>>]
        /\ evSent' = <<>>
        /\ evIssued' = IF draws THEN <<fa.ret>> ELSE <<>>
        /\ serial' = IF draws THEN fa.new ELSE serial
        /\ issued' = IF draws
                       THEN [issued EXCEPT !["loop"] = Append(@, fa.ret)]
                       ELSE issued
        /\ msg' = IF sends
                    THEN [msg EXCEPT !["loop"] =
                             [type |-> h.cmd, data |-> f.data,
                              serial |-> IF draws THEN fa.ret ELSE NoSerial]]
                    ELSE msg
        /\ pc' = [pc EXCEPT !["loop"] =
                     IF h.panic THEN "panic_unreachable"
                     ELSE IF h.end # "none" THEN "epoch_end"
                     ELSE IF sends THEN "send_lock"
                     ELSE IF h.fwd THEN "fwd"
                     ELSE "active"]
        /\ loggedIn' = IF h.end # "none" /\ ~h.panic THEN FALSE ELSE loggedIn
        /\ endCause' = IF h.end # "none" /\ ~h.panic THEN h.end ELSE endCause
        /\ core' = IF h.panic THEN "free" ELSE core
        /\ UNCHANGED <<RUNNING, socket, chan, lock, wire, conn, hs, sdWake,
                       sockFrame, epochSock>>

\* Lines 170-175, 213: a wake taken by the select while the epoch runs
LoopRecvWake ==
    /\ pc["loop"] = "active"
    /\ chan > 0
    /\ chan' = chan - 1
    /\ pc' = [pc EXCEPT !["loop"] = OnWake]
    /\ endCause' = IF OnWake = "epoch_end" THEN "wake" ELSE endCause
    /\ UNCHANGED <<RUNNING, socket, serial, core, lock, msg, wire, conn, hs,
                   issued, loggedIn, sdWake,
                   sockFrame, epochSock>>
    /\ UNCHANGED <<ev, evView, evSent, evIssued>>

\* Line 204: view.handle_rpc after the Unsubscribe was sent
LoopForward ==
    /\ pc["loop"] = "fwd"
    /\ evView' = Append(evView, <<"handle_rpc", ev>>)
    /\ pc' = [pc EXCEPT !["loop"] = "active"]
    /\ UNCHANGED <<RUNNING, socket, chan, serial, core, lock, msg, wire, conn,
                   hs, issued, loggedIn, sdWake, endCause,
                   sockFrame, epochSock>>
    /\ UNCHANGED <<ev, evSent, evIssued>>

\* Line 219: RUNNING.load; on false, line 223: break (the borrows end)
LoopLoadRunning ==
    /\ pc["loop"] = "epoch_end"
    /\ pc' = [pc EXCEPT !["loop"] = EpochEndTarget(RUNNING)]
    /\ core' = IF EpochEndTarget(RUNNING) = "done" THEN "free" ELSE core
    /\ UNCHANGED <<RUNNING, socket, chan, serial, lock, msg, wire, conn, hs,
                   issued, loggedIn, sdWake, endCause,
                   sockFrame, epochSock>>
    /\ UNCHANGED <<ev, evView, evSent, evIssued>>

\* Lines 220-221: *self.socket.borrow_mut() = None; continue.  The Ref of
\* line 157 is still alive here, so the borrow_mut finds the cell borrowed.
LoopClearSocket ==
    /\ pc["loop"] = "clear"
    /\ IF SocketBorrows = 0
         THEN /\ socket' = 0
              /\ sockFrame' = NoFrame
              /\ pc' = [pc EXCEPT !["loop"] = "wait_init"]
         ELSE /\ socket' = socket
              /\ sockFrame' = sockFrame
              /\ pc' = [pc EXCEPT !["loop"] = "panic_clear"]
    /\ core' = "free"
    /\ UNCHANGED <<RUNNING, chan, serial, lock, msg, wire, conn, hs, issued,
                   epochSock, loggedIn, sdWake, endCause>>
    /\ UNCHANGED <<ev, evView, evSent, evIssued>>

Next ==
    \/ InitStart
    \/ InitConnect
    \/ InitReadFrame
    \/ InitStore
    \/ InitWake
    \/ Shutdown
    \/ ShutdownWake
    \/ CallNextSerial
    \/ CallSend
    \/ \E t \in Threads : SendRawLock(t)
    \/ \E t \in Threads : SendRawWrite(t)
    \/ \E t \in Threads : SendRawFlush(t)
    \/ LoopWait
    \/ LoopCheckSocket
    \/ \E f \in ActiveFrames : LoopRecv(f)
    \/ LoopRecvWake
    \/ LoopForward
    \/ LoopLoadRunning
    \/ LoopClearSocket

Spec == Init /\ [][Next]_vars

Spec32 == Init32 /\ [][Next]_vars


\* ------------------------------------------------------------- claims

\* C1: when an epoch has ended and RUNNING was read as true, the loop sets
\* the stored socket to absent and goes back to waiting on the wake
\* channel; it neither terminates nor crashes.
C1_EpochEndReturnsToWait ==
    [][(pc["loop"] = "clear" /\ pc'["loop"] # "clear")
          => (socket' = 0 /\ pc'["loop"] = "wait_init")]_vars

\* C2: when an epoch ends, by whatever cause, while RUNNING is false, the
\* loop terminates; once terminated it stays terminated and takes no wake
\* from the channel any more, whatever the caller does afterwards.
C2_ShutdownEpochEndTerminates ==
    [][/\ (pc["loop"] = "epoch_end" /\ ~RUNNING /\ pc'["loop"] # "epoch_end")
            => pc'["loop"] = "done"
       /\ pc["loop"] = "done"
            => (pc'["loop"] = "done" /\ chan' >= chan /\ core' # "loop")]_vars

\* The loop has terminated at the end of an epoch under shutdown, and a
\* later connect has succeeded: its wake stays in the channel.
C2_Witness ==
    /\ pc["loop"] = "done"
    /\ endCause # "none"
    /\ ~RUNNING
    /\ epochSock = 1
    /\ socket = 2
    /\ hs.res = "ok"
    /\ chan > 0

\* C3: the values next_serial has returned, to all callers together, are
\* exactly 0 .. N-1 for N calls, none twice, and each caller's own values
\* strictly increase.
C3_SerialsExact ==
    LET all == issued["loop"] \o issued["ui"]
        vals == {all[i] : i \in DOMAIN all}
    IN  /\ vals = {U64(v) : v \in {n \in 0..Len(all) : n < Len(all)}}
        /\ Cardinality(vals) = Len(all)
        /\ \A t \in Threads : \A i, j \in DOMAIN issued[t] :
               i < j => U64Less(issued[t][i], issued[t][j])

\* Two callers have drawn serials, interleaved.
C3_Witness ==
    /\ issued["ui"] = <<U64(0), U64(2)>>
    /\ issued["loop"] = <<U64(1)>>

\* C4: a connect that failed has stored no socket and sent no wake; a
\* stored socket is one whose first frame was a version of the client's
\* major, and so is the socket of any epoch the loop is in.
C4_FailedConnectStoresNothing ==
    /\ socket # 0 =>
          (sockFrame.kind = "ver" /\ sockFrame.major = MAJOR_VERSION)
    /\ hs.res = "err" => (socket # conn /\ hs.wakes = 0)
    /\ hs.wakes > 0 =>
          (hs.frame.kind = "ver" /\ hs.frame.major = MAJOR_VERSION)
    /\ pc["loop"] \in EpochPcs => (socket # 0 /\ epochSock = socket)

\* A connect has failed on a version of another major; nothing is stored
\* and no wake is queued.
C4_Witness ==
    /\ conn = 1
    /\ hs.res = "err"
    /\ hs.frame.kind = "ver"
    /\ hs.frame.major # MAJOR_VERSION
    /\ socket = 0
    /\ chan = 0
    /\ pc["ui"] = "idle"

\* C5: connect always returns: while it waits for the first frame it can
\* always go on (with the frame, or with the timeout), also when the
\* server never sends one.
C5_ConnectNeverBlocks ==
    pc["ui"] = "init_frame" => ENABLED InitReadFrame

\* C6: after a successful transport connect, connect succeeds if and only
\* if the first frame is a text frame holding a version of the client's
\* major, whatever the minor; the step that returns success has stored this
\* connect's socket and has sent exactly one wake.
C6_ConnectSucceedsIffCompatible ==
    /\ []((/\ hs.transport = "ok"
            /\ pc["ui"] \notin {"init_frame", "init_store", "init_wake"})
           => /\ hs.res = "ok" <=>
                   (hs.frame.kind = "ver" /\ hs.frame.major = MAJOR_VERSION)
              /\ hs.res = "ok" => hs.wakes = 1
              /\ hs.res # "ok" => hs.wakes = 0)
    /\ [][(hs.res # "ok" /\ hs'.res = "ok")
            => /\ hs.transport = "ok"
               /\ socket' = conn
               /\ sockFrame' = hs.frame
               /\ chan' = chan + 1]_vars

\* A connect has succeeded on a server whose minor differs.
C6_Witness ==
    /\ hs.res = "ok"
    /\ hs.frame.kind = "ver"
    /\ hs.frame.minor # 0
    /\ socket = conn
    /\ pc["ui"] = "idle"

\* C7 as stated: woken in WAIT_INIT with RUNNING false, or with no socket
\* stored, the loop terminates without entering ACTIVE.
C7_WokenAfterShutdownTerminates ==
    [][(/\ pc["loop"] = "woken"
        /\ pc'["loop"] # "woken"
        /\ (~RUNNING \/ socket = 0))
          => pc'["loop"] = "done"]_vars

\* C7 as amended: woken in WAIT_INIT, the loop terminates exactly when no
\* socket is stored, whatever RUNNING is; with a socket stored it goes on
\* to borrow the core and enter ACTIVE, also after a shutdown request.
C7_WokenTerminatesIffNoSocket ==
    [][(pc["loop"] = "woken" /\ pc'["loop"] # "woken")
          => IF socket = 0
               THEN pc'["loop"] = "done"
               ELSE pc'["loop"] \in {"active", "panic_core"}]_vars

\* The loop was woken by the shutdown wake before any connect succeeded
\* and has terminated without an epoch.
C7_Witness ==
    /\ pc["loop"] = "done"
    /\ endCause = "none"
    /\ socket = 0
    /\ ~RUNNING
    /\ sdWake

\* C8, the case "in the middle of ending an epoch": once shutdown has been
\* requested and its wake sent, a loop that is ending an epoch does not
\* crash: it terminates, or clears the socket and waits for the wake.
C8_ShutdownWakeNoCrashAtEpochEnd ==
    [][(sdWake /\ pc["loop"] \in {"epoch_end", "clear"})
          => pc'["loop"] \in {"epoch_end", "clear", "done", "wait_init"}]_vars

\* C9: the wake channel never holds more than one pending wake.
C9_AtMostOnePendingWake == chan <= 1

\* C10: at most one thread is between the lock and the unlock of send_raw
\* and it holds the lock; what reaches the write half is whole frames, each
\* send followed at once by its own flush; and a held lock does not keep
\* the loop from taking the next frame off the read half.
C10_WriteSectionExclusive ==
    /\ Cardinality({t \in Threads : pc[t] \in {"send_write", "send_flush"}}) <= 1
    /\ \A t \in Threads : pc[t] \in {"send_write", "send_flush"} => lock = t
    /\ \A i \in DOMAIN wire :
          IF i % 2 = 1
            THEN /\ wire[i][2] = "send"
                 /\ i = Len(wire) =>
                       (/\ pc[wire[i][1]] = "send_flush"
                        /\ Header(msg[wire[i][1]]) = wire[i][3])
            ELSE wire[i] = <<wire[i - 1][1], "flush", wire[i - 1][3]>>
    /\ (pc["loop"] = "active" /\ lock # "none") => ENABLED LoopRecv([kind |-> "other", data |-> "-"])

\* The caller is inside the write section while the loop waits for the
\* lock with a frame of its own.
C10_Witness ==
    /\ pc["ui"] = "send_flush"
    /\ lock = "ui"
    /\ pc["loop"] = "send_lock"

C13_PingPongNoViewCall ==
    /\ (pc["loop"] \in SendPcs /\ ev.kind = "ping") =>
          /\ evSent = <<>>
          /\ evView = <<>>
          /\ evIssued = <<>>
          /\ msg["loop"] = [type |-> "pong", data |-> ev.data,
                            serial |-> NoSerial]
    /\ (pc["loop"] = "active" /\ ev.kind = "ping") =>
          /\ Len(evSent) = 1
          /\ evSent[1].frame = [type |-> "pong", data |-> ev.data,
                                serial |-> NoSerial]
          /\ evIssued = <<>>
          /\ evView = <<>>
    /\ (ev.kind = "ping" /\ endCause # "wake") =>
          pc["loop"] \in SendPcs \cup {"active"}

\* C13 as amended: once the loop has handled an inbound Ping(x) it has
\* handed exactly one Pong(x) to the write half and has drawn no serial,
\* and the epoch goes on; the Ping is not passed to the view, whose only
\* call is the one global_err of send_raw when the write or the flush of
\* the Pong failed.
C13_PingPongNotForwarded ==
    /\ (pc["loop"] \in SendPcs /\ ev.kind = "ping") =>
          /\ evSent = <<>>
          /\ evView = <<>>
          /\ evIssued = <<>>
          /\ msg["loop"] = [type |-> "pong", data |-> ev.data,
                            serial |-> NoSerial]
    /\ (pc["loop"] = "active" /\ ev.kind = "ping") =>
          /\ Len(evSent) = 1
          /\ evSent[1].frame = [type |-> "pong", data |-> ev.data,
                                serial |-> NoSerial]
          /\ evIssued = <<>>
          /\ evView = IF evSent[1].ok THEN <<>>
                      ELSE << <<"global_err", "send_raw">> >>
    /\ (ev.kind = "ping" /\ endCause # "wake") =>
          pc["loop"] \in SendPcs \cup {"active"}

\* A Ping has been answered while the counter stood at 1: the Pong is out,
\* the counter has not moved and the loop is back in ACTIVE.
C13_Witness ==
    /\ pc["loop"] = "active"
    /\ ev = [kind |-> "ping", data |-> "b"]
    /\ evSent = <<[frame |-> [type |-> "pong", data |-> "b",
                              serial |-> NoSerial],
                   ok |-> TRUE]>>
    /\ evView = <<>>
    /\ serial = Usize(WideLimbs, 1)
    /\ issued["loop"] = <<U64(0)>>

\* C14: a wake taken off the channel while the loop is ACTIVE ends the
\* epoch at once, handling nothing; from then on the loop takes no item of
\* that connection's read half, although one is always there to take: it
\* sends no frame, draws no serial and calls no view handler.
C14_WakeEndsEpoch ==
    /\ []((pc["loop"] \in {"epoch_end", "clear", "done", "panic_clear"}
              /\ endCause = "wake")
            => \A f \in ActiveFrames : ~ENABLED LoopRecv(f))
    /\ [][/\ (pc["loop"] = "active" /\ chan' < chan)
               => /\ pc'["loop"] = "epoch_end"
                  /\ endCause' = "wake"
                  /\ UNCHANGED <<ev, evView, evSent, evIssued, issued, wire,
                                 msg, serial>>
          /\ (pc["loop"] \in {"epoch_end", "clear", "done", "panic_clear"}
                 /\ endCause = "wake")
               => /\ pc'["loop"] \in {"epoch_end", "clear", "done",
                                       "panic_clear", "wait_init"}
                  /\ UNCHANGED <<ev, evView, evSent, evIssued>>
                  /\ issued'["loop"] = issued["loop"]
                  /\ msg'["loop"] = msg["loop"]
                  /\ (wire' # wire => wire'[Len(wire')][1] # "loop")]_vars

\* The shutdown wake was taken in ACTIVE after a ResourcesExtant had been
\* handled; the loop has left the epoch and terminated.
C14_Witness ==
    /\ endCause = "wake"
    /\ pc["loop"] = "done"
    /\ ev.kind = "extant"
    /\ Len(evSent) = 1

\* C15: a Close frame and a read error are each the last item the loop
\* takes from that connection: the view is told exactly once
\* (server_close for the Close, global_err for the read error), nothing is
\* sent, no serial is drawn, the epoch is over and no further item is
\* taken although one is always there to take.
C15_CloseAndReadErrorEndEpoch ==
    \A k \in {"close", "readerr"} :
       ev.kind = k =>
          /\ pc["loop"] \in {"epoch_end", "clear", "done", "panic_clear",
                             "wait_init", "woken", "panic_core"}
          /\ endCause = (IF k = "close" THEN "close" ELSE "error")
          /\ evView = << <<IF k = "close" THEN "server_close"
                           ELSE "global_err", ev>> >>
          /\ evSent = <<>>
          /\ evIssued = <<>>
          /\ msg["loop"] = NoMsg
          /\ \A f \in ActiveFrames : ~ENABLED LoopRecv(f)

\* The server has closed the connection after a Ping had been answered:
\* the view was told once and the epoch is over.
C15_Witness ==
    /\ ev.kind = "close"
    /\ pc["loop"] = "epoch_end"
    /\ evView = << <<"server_close", ev>> >>
    /\ Len(wire) = 2
    /\ wire[1][1] = "loop"

\* C16: taking a Text frame that does not decode calls view.global_err once
\* and changes nothing else: no frame is sent, no serial drawn, handle_rpc
\* not called, the socket stays stored and the loop stays in ACTIVE, where
\* it can take the next item.
C16_DecodeErrorOnlyReported ==
    /\ []((ev.kind = "textbad" /\ pc["loop"] = "active")
            => /\ evView = << <<"global_err", ev>> >>
               /\ evSent = <<>>
               /\ evIssued = <<>>
               /\ socket # 0
               /\ socket = epochSock
               /\ ENABLED LoopRecv([kind |-> "other", data |-> "-"])
               /\ ENABLED LoopRecv([kind |-> "close", data |-> "-"]))
    /\ [][(pc["loop"] = "active" /\ ev' # ev /\ ev'.kind = "textbad")
            => /\ evView' = << <<"global_err", ev'>> >>
               /\ evSent' = <<>>
               /\ evIssued' = <<>>
               /\ UNCHANGED <<RUNNING, socket, sockFrame, epochSock, chan,
                              serial, issued, core, lock, pc, msg, wire,
                              conn, hs, loggedIn, sdWake, endCause>>]_vars

\* An undecodable Text frame was taken after a ResourcesExtant had been
\* handled: the view has the error, the counter and the wire are as the
\* Subscribe left them, and the loop is in ACTIVE.
C16_Witness ==
    /\ ev.kind = "textbad"
    /\ pc["loop"] = "active"
    /\ evView = << <<"global_err", ev>> >>
    /\ issued["loop"] = <<U64(0)>>
    /\ Len(wire) = 2
    /\ socket = 1

\* C17: the counter moves only in a call of next_serial, which hands the
\* old value to its caller and adds one; no step of connect, wake, the end
\* of an epoch, the clearing of the socket or the start of an epoch changes
\* it; so every serial issued so far is below the counter, and the next one
\* issued, in whatever epoch, is greater than all of them.
C17_SerialOnlyMovedByNextSerial ==
    /\ [](\A t \in Threads : \A i \in DOMAIN issued[t] :
              U64Less(issued[t][i], AsU64(serial)))
    /\ [][/\ serial' # serial
               => /\ serial' = WrappingAdd1(serial)
                  /\ \E t \in Threads :
                        /\ issued'[t] = Append(issued[t], AsU64(serial))
                        /\ \A u \in Threads \ {t} : issued'[u] = issued[u]
                  /\ UNCHANGED <<socket, sockFrame, conn, hs, chan,
                                 epochSock, endCause, RUNNING>>
          /\ (\/ conn' # conn \/ hs' # hs \/ socket' # socket
              \/ chan' # chan \/ epochSock' # epochSock
              \/ endCause' # endCause \/ RUNNING' # RUNNING
              \/ /\ pc'["loop"] # pc["loop"]
                 /\ pc'["loop"] \in {"woken", "epoch_end", "clear", "done",
                                     "wait_init", "panic_clear"})
               => (serial' = serial /\ issued' = issued)]_vars

\* The loop drew serial 0 in the first epoch and the caller serial 1; the
\* epoch has ended and a second connect has stored its socket: the counter
\* still stands at 2.
C17_Witness ==
    /\ conn = 2
    /\ socket = 2
    /\ hs.res = "ok"
    /\ epochSock = 1
    /\ issued["loop"] = <<U64(0)>>
    /\ issued["ui"] = <<U64(1)>>
    /\ serial = Usize(WideLimbs, 2)

\* C18: next_serial returns the 64-bit count of its earlier calls, whatever
\* the width of the AtomicUsize: in a build whose counter has reached
\* 2^32 - 1, no value returned from then on is below 2^32 - 1, none is
\* returned twice, and the values each caller gets strictly increase.
C18_SerialIs64BitCount ==
    LET all == issued["loop"] \o issued["ui"]
        before == [i \in 1..U64Limbs |->
                      IF i <= NarrowLimbs THEN LimbBase - 1 ELSE 0]
    IN  /\ \A i \in DOMAIN all : ~U64Less(all[i], before)
        /\ \A i, j \in DOMAIN all : i # j => all[i] # all[j]
        /\ \A t \in Threads : \A i, j \in DOMAIN issued[t] :
               i < j => U64Less(issued[t][i], issued[t][j])

\* C19: once a connect has returned success and no shutdown was requested,
\* the loop has entered, or is about to enter, an epoch on the socket that
\* this connect stored: either its latest epoch reads from that socket, or
\* that socket is still stored and the loop is waiting with a wake queued,
\* has just taken it, or is still ending the previous epoch.
C19_ConnectStartsEpochOnItsSocket ==
    (hs.res = "ok" /\ RUNNING) =>
       \/ epochSock = conn
       \/ /\ socket = conn
          /\ \/ pc["loop"] = "woken"
             \/ /\ pc["loop"] \in {"wait_init", "epoch_end", "clear"}
                /\ chan > 0

=============================================================================
